---- MODULE Spec2Model ----
(***************************************************************************)
(* Model of src/app.py, the Streamlit kickball roster manager.             *)
(*                                                                         *)
(* The SQLite tables are the state.  One step of the model is one user     *)
(* interaction: the script run in which a widget fires, the handler, and   *)
(* the run that st.rerun() starts, with every write these runs make.       *)
(* Every script run of an authenticated session executes the Game Lineup   *)
(* tab first (st.tabs runs the body of every tab), so every interaction of *)
(* such a session starts with the get-or-create of the current game.       *)
(***************************************************************************)
EXTENDS Integers, Sequences, FiniteSets, TLC

VARIABLES
    today,               \* datetime.now(), as a day number; day 0 is a Monday
    users,               \* table users
    authenticated,       \* st.session_state.authenticated, per browser session
    current_game_id,     \* st.session_state.current_game_id, per browser session
    main_roster,         \* table main_roster
    substitutes,         \* table substitutes
    games,               \* table games
    game_player_status,  \* table game_player_status
    lineup_positions,    \* table lineup_positions: a bag of rows (no UNIQUE constraint)
    lineup_grid,         \* the latest Game Lineup run drew the grid (available_players non-empty)
    inning_warnings,     \* inning_warnings of the latest Game Lineup run
    notice,              \* st.success / st.error of the latest form submission
    last,                \* the latest interaction: handler, session and the handler's locals
    left,                \* number of interactions the exploration still follows
    run                  \* per session, the statement its script run has reached and the
                         \* run's locals, where runs are followed statement by statement

vars == <<today, users, authenticated, current_game_id, main_roster, substitutes,
          games, game_player_status, lineup_positions, lineup_grid, inning_warnings,
          notice, last, left, run>>

tables == <<main_roster, substitutes, games, game_player_status, lineup_positions>>

-----------------------------------------------------------------------------
(* Bounds of the exploration *)

MaxOps == 3          \* interactions per behaviour
MaxWideOps == 2      \* the same, for the specifications in which every handler can fire
MaxWeeksAhead == 1   \* the date input offers next Thursday and this many weeks after it
MaxRunOps == 2       \* interactions per behaviour where runs are followed by statement

-----------------------------------------------------------------------------
(* Program constants *)

NUM_INNINGS == 7            \* range(1, 8)
MIN_FEMALES == 4            \* if female_count < 4
ORDER_PLACEHOLDER == 999    \* COALESCE(kicking_order, 999)
THURSDAY == 3               \* datetime.weekday() of a Thursday
NULL == 0                   \* SQL NULL / Python None in an integer column; stored ids and
                            \* kicking orders are >= 1, and the code's own tests
                            \* ("if order:", "or 0") do not tell None from 0 either

Innings == 1..NUM_INNINGS

POSITIONS == <<"Pitcher", "Catcher", "First Base", "Second Base", "Third Base",
               "Short Stop", "Left Field", "Left Center", "Center Field",
               "Right Center", "Right Field", "Out">>

POSITION_ABBREVIATIONS ==
    [p \in {POSITIONS[k] : k \in 1..Len(POSITIONS)} |->
        CASE p = "Pitcher"      -> "P"
          [] p = "Catcher"      -> "C"
          [] p = "First Base"   -> "1st"
          [] p = "Second Base"  -> "2nd"
          [] p = "Third Base"   -> "3rd"
          [] p = "Short Stop"   -> "SS"
          [] p = "Left Field"   -> "LF"
          [] p = "Left Center"  -> "LC"
          [] p = "Center Field" -> "CF"
          [] p = "Right Center" -> "RC"
          [] p = "Right Field"  -> "RF"
          [] p = "Out"          -> "Out"]

DEFAULT_TEAM == "Unsolicited Kick Pics"

-----------------------------------------------------------------------------
(* Player names are strings: sequences of character codes, SPACE = 0 and   *)
(* letters 1, 2, ... in alphabetical order.                                *)

SPACE == 0
Alice == <<1>>
Bob   == <<2>>
Carol == <<3>>
Erin  == <<5>>
Fay   == <<6>>

RECURSIVE NameLess(_, _)
NameLess(a, b) ==
    IF a = <<>> THEN b # <<>>
    ELSE IF b = <<>> THEN FALSE
    ELSE IF Head(a) # Head(b) THEN Head(a) < Head(b)
    ELSE NameLess(Tail(a), Tail(b))

RECURSIVE lstrip(_)
lstrip(s) == IF s # <<>> /\ Head(s) = SPACE THEN lstrip(Tail(s)) ELSE s

RECURSIVE rstrip(_)
rstrip(s) == IF s # <<>> /\ s[Len(s)] = SPACE THEN rstrip(SubSeq(s, 1, Len(s) - 1)) ELSE s

strip(s) == rstrip(lstrip(s))

Max(S) == CHOOSE x \in S : \A y \in S : y <= x
Min(S) == CHOOSE x \in S : \A y \in S : x <= y

-----------------------------------------------------------------------------
(* The database as one value, so that the writes of a script run compose.  *)

DB == [main_roster |-> main_roster, substitutes |-> substitutes, games |-> games,
       game_player_status |-> game_player_status, lineup_positions |-> lineup_positions]

EmptyLineup == [r \in {} |-> 0]

LineupRow(g, inning, position, player) ==
    [game_id |-> g, inning |-> inning, position |-> position, player_name |-> player]

\* INSERT INTO lineup_positions: one more copy of the row
InsertLineup(lp, row) ==
    [r \in DOMAIN lp \cup {row} |-> IF r = row
                                    THEN (IF row \in DOMAIN lp THEN lp[row] + 1 ELSE 1)
                                    ELSE lp[r]]

\* DELETE FROM lineup_positions WHERE the row is in gone
DeleteLineup(lp, gone) == [r \in DOMAIN lp \ gone |-> lp[r]]

\* the rows of one player in one inning of one game
PlayerRows(lp, g, inning, player) ==
    {r \in DOMAIN lp : r.game_id = g /\ r.inning = inning /\ r.player_name = player}

InningRows(lp, g, inning) == {r \in DOMAIN lp : r.game_id = g /\ r.inning = inning}

RECURSIVE SumCounts(_, _)
SumCounts(lp, rows) ==
    IF rows = {} THEN 0
    ELSE LET r == CHOOSE x \in rows : TRUE IN lp[r] + SumCounts(lp, rows \ {r})

-----------------------------------------------------------------------------
(* get_next_thursday and the games table *)

\* get_next_thursday without "if days_until_thursday == 0"
NextThursdayOrToday(t) == t + ((THURSDAY - (t % 7)) % 7)

get_next_thursday(t) ==
    LET days_until_thursday == (THURSDAY - (t % 7)) % 7
    IN  t + (IF days_until_thursday = 0 THEN 7 ELSE days_until_thursday)

GamesOn(gs, date) == {g \in gs : g.game_date = date}

\* c.fetchone() of the lookup by date: the scan is in rowid order
FetchGame(gs, date) == CHOOSE g \in GamesOn(gs, date) : \A h \in GamesOn(gs, date) : g.id <= h.id

\* id INTEGER PRIMARY KEY AUTOINCREMENT; no game is ever deleted
NextGameId(gs) == Max({g.id : g \in gs} \cup {0}) + 1

GetOrCreateCurrentGame(d, t) ==
    LET next_thursday == get_next_thursday(t)
    IN  IF GamesOn(d.games, next_thursday) # {}
        THEN d
        ELSE [d EXCEPT !.games = @ \cup {[id |-> NextGameId(@), game_date |-> next_thursday,
                                         team_name |-> DEFAULT_TEAM, opponent_name |-> ""]}]

\* game_id of a run, once GetOrCreateCurrentGame has run
CurrentGameId(d, t) == FetchGame(d.games, get_next_thursday(t)).id

\* UPDATE games SET game_date, team_name, opponent_name WHERE id = g
UpdateGameRow(d, g, new_date, new_team_name, new_opponent) ==
    [d EXCEPT !.games = {IF x.id = g
                         THEN [x EXCEPT !.game_date = new_date, !.team_name = new_team_name,
                                        !.opponent_name = new_opponent]
                         ELSE x : x \in @}]

-----------------------------------------------------------------------------
(* game_player_status: UNIQUE(game_id, player_name) *)

StatusRow(g, player, status, is_sub, order) ==
    [game_id |-> g, player_name |-> player, status |-> status,
     is_substitute |-> is_sub, kicking_order |-> order]

StatusRowsOf(gps, g, player) == {r \in gps : r.game_id = g /\ r.player_name = player}

InsertOrIgnoreStatus(gps, row) ==
    IF StatusRowsOf(gps, row.game_id, row.player_name) # {} THEN gps ELSE gps \cup {row}

InsertOrReplaceStatus(gps, row) ==
    (gps \ StatusRowsOf(gps, row.game_id, row.player_name)) \cup {row}

InRows(gps, g) == {r \in gps : r.game_id = g /\ r.status = "IN"}

\* SELECT COALESCE(MAX(kicking_order), 0) ... WHERE status = 'IN'
MaxInOrder(gps, g) == Max({r.kicking_order : r \in InRows(gps, g)} \cup {0})

-----------------------------------------------------------------------------
(* Game Lineup tab: the toggle_player handler (lines 607-642) *)

PoolNames(pool) == {x.player_name : x \in pool}

\* TogglePlayerHandler whose transition to OUT keeps the kicking order of the row
ToggleKeepsOrder(d, g, player_to_toggle) ==
    LET is_sub == player_to_toggle \in PoolNames(d.substitutes)
        result == StatusRowsOf(d.game_player_status, g, player_to_toggle)
        gps == d.game_player_status
    IN  [d EXCEPT !.game_player_status =
            IF result = {}
            THEN InsertOrReplaceStatus(gps,
                     StatusRow(g, player_to_toggle, IF is_sub THEN "IN" ELSE "OUT", is_sub,
                               IF is_sub THEN MaxInOrder(gps, g) + 1 ELSE NULL))
            ELSE IF (CHOOSE r \in result : TRUE).status = "IN"
            THEN InsertOrReplaceStatus(gps,
                     StatusRow(g, player_to_toggle, "OUT", is_sub,
                               (CHOOSE r \in result : TRUE).kicking_order))
            ELSE InsertOrReplaceStatus(gps,
                     StatusRow(g, player_to_toggle, "IN", is_sub, MaxInOrder(gps, g) + 1))]

\* TogglePlayerHandler whose transition to IN numbers the player by the count of the
\* IN players instead of their greatest kicking order
ToggleCountsIn(d, g, player_to_toggle) ==
    LET is_sub == player_to_toggle \in PoolNames(d.substitutes)
        result == StatusRowsOf(d.game_player_status, g, player_to_toggle)
        gps == d.game_player_status
        current_status == IF result # {} THEN (CHOOSE r \in result : TRUE).status
                          ELSE IF is_sub THEN "OUT" ELSE "IN"
    IN  [d EXCEPT !.game_player_status =
            IF current_status = "IN"
            THEN InsertOrReplaceStatus(gps, StatusRow(g, player_to_toggle, "OUT", is_sub, NULL))
            ELSE InsertOrReplaceStatus(gps,
                     StatusRow(g, player_to_toggle, "IN", is_sub,
                               Cardinality(InRows(gps, g)) + 1))]

TogglePlayerHandler(d, g, player_to_toggle) ==
    LET is_sub == player_to_toggle \in PoolNames(d.substitutes)
        result == StatusRowsOf(d.game_player_status, g, player_to_toggle)
        current_status == IF result # {} THEN (CHOOSE r \in result : TRUE).status
                          ELSE IF is_sub THEN "OUT" ELSE "IN"
        gps1 == IF result = {}
                THEN InsertOrIgnoreStatus(d.game_player_status,
                         StatusRow(g, player_to_toggle, current_status, is_sub, NULL))
                ELSE d.game_player_status
        max_order == MaxInOrder(gps1, g)
    IN  [d EXCEPT !.game_player_status =
            IF current_status = "IN"
            THEN InsertOrReplaceStatus(gps1, StatusRow(g, player_to_toggle, "OUT", is_sub, NULL))
            ELSE InsertOrReplaceStatus(gps1,
                     StatusRow(g, player_to_toggle, "IN", is_sub, max_order + 1))]

-----------------------------------------------------------------------------
(* Game Lineup tab: what a run writes while it renders *)

\* the Substitutes expander without its INSERT: a missing row is only shown as OUT
InitSubstitutesVirtual(d, g) == d

\* the Substitutes expander (lines 699-716): every substitute without a row gets an OUT row
InitSubstitutes(d, g) ==
    [d EXCEPT !.game_player_status =
        @ \cup {StatusRow(g, sub, "OUT", TRUE, NULL) :
                   sub \in {n \in PoolNames(d.substitutes) : StatusRowsOf(@, g, n) = {}}}]

\* COALESCE(kicking_order, 999) as order_val
OrderVal(r) == IF r.kicking_order = NULL THEN ORDER_PLACEHOLDER ELSE r.kicking_order

\* ORDER BY order_val, player_name
Before(q, r) ==
    \/ OrderVal(q) < OrderVal(r)
    \/ OrderVal(q) = OrderVal(r) /\ NameLess(q.player_name, r.player_name)

\* the place (from 1) of an IN row in available_players_data
AvailableIndex(gps, g, r) == 1 + Cardinality({q \in InRows(gps, g) : Before(q, r)})

\* kicking order initialisation (lines 782-798)
InitKickingOrder(d, g) ==
    LET gps == d.game_player_status
        needs_order_init == \E r \in InRows(gps, g) : OrderVal(r) = ORDER_PLACEHOLDER
    IN  IF needs_order_init
        THEN [d EXCEPT !.game_player_status =
                {IF r \in InRows(gps, g)
                 THEN [r EXCEPT !.kicking_order = AvailableIndex(gps, g, r)]
                 ELSE r : r \in gps}]
        ELSE d

\* available_players / available_players_sorted: the IN players by (order_val, name)
AvailablePlayers(gps, g) ==
    [k \in 1..Cardinality(InRows(gps, g)) |->
        (CHOOSE r \in InRows(gps, g) : AvailableIndex(gps, g, r) = k).player_name]

AvailableSet(gps, g) == {r.player_name : r \in InRows(gps, g)}

\* the writes of a run from the substitutes expander on, for the run's game_id
RenderFrom(d, g) == InitKickingOrder(InitSubstitutes(d, g), g)

\* the writes of a whole run of the Game Lineup tab in which no widget fires
RenderGameTab(d, t) ==
    LET d1 == GetOrCreateCurrentGame(d, t)
    IN  RenderFrom(d1, CurrentGameId(d1, t))

-----------------------------------------------------------------------------
(* Game Lineup tab: the per-inning checks (lines 837-922) *)

PlayingPositions == {POSITIONS[k] : k \in 1..Len(POSITIONS)} \ {"Out"}

\* the rows of the inning the checks look at: position != 'Out' AND position != ''
FieldRows(lp, g, inning_num) ==
    {r \in InningRows(lp, g, inning_num) : r.position # "Out" /\ r.position # ""}

\* COALESCE(x.is_female, 0) over the rows LEFT JOINed on the name
JoinedFemale(pool, name) ==
    IF \E x \in pool : x.player_name = name
    THEN {x.is_female : x \in {y \in pool : y.player_name = name}}
    ELSE {FALSE}

\* check_female_count without "lp.position != 'Out'"
CountFemalesWithOut(d, g, inning_num) ==
    Cardinality({r.player_name :
        r \in {x \in InningRows(d.lineup_positions, g, inning_num) :
                 /\ x.position # ""
                 /\ \E mr \in JoinedFemale(d.main_roster, x.player_name),
                       s \in JoinedFemale(d.substitutes, x.player_name) : mr \/ s}})

check_female_count(d, g, inning_num) ==
    Cardinality({r.player_name :
        r \in {x \in FieldRows(d.lineup_positions, g, inning_num) :
                 \E mr \in JoinedFemale(d.main_roster, x.player_name),
                    s \in JoinedFemale(d.substitutes, x.player_name) : mr \/ s}})

\* get_unused_positions over all of POSITIONS, "Out" included
UnusedWithOut(d, g, inning_num) ==
    LET filled_positions == {r.position : r \in FieldRows(d.lineup_positions, g, inning_num)}
    IN  {POSITIONS[k] : k \in 1..Len(POSITIONS)} \ filled_positions

get_unused_positions(d, g, inning_num) ==
    LET filled_positions == {r.position : r \in FieldRows(d.lineup_positions, g, inning_num)}
    IN  PlayingPositions \ filled_positions

\* get_duplicate_positions without "position != 'Out'"
DuplicatesWithOut(d, g, inning_num) ==
    LET rows == {r \in InningRows(d.lineup_positions, g, inning_num) : r.position # ""}
    IN  {pos \in {r.position : r \in rows} :
            SumCounts(d.lineup_positions, {r \in rows : r.position = pos}) > 1}

\* GROUP BY position HAVING COUNT(*) > 1
get_duplicate_positions(d, g, inning_num) ==
    LET rows == FieldRows(d.lineup_positions, g, inning_num)
    IN  {pos \in {r.position : r \in rows} :
            SumCounts(d.lineup_positions, {r \in rows : r.position = pos}) > 1}

\* position -> the players holding it, for the positions held more than once
get_duplicate_players_by_position(d, g, inning_num) ==
    LET rows == FieldRows(d.lineup_positions, g, inning_num)
        dups == {pos \in {r.position : r \in rows} :
                    SumCounts(d.lineup_positions, {r \in rows : r.position = pos}) > 1}
    IN  [pos \in dups |-> {r.player_name : r \in {x \in rows : x.position = pos}}]

Warning(kind, count, positions) == [kind |-> kind, count |-> count, positions |-> positions]

\* warnings of one inning (lines 900-922)
WarningsOf(d, g, i) ==
    LET female_count == check_female_count(d, g, i)
        duplicates == get_duplicate_positions(d, g, i)
        unused == get_unused_positions(d, g, i)
    IN  (IF female_count < MIN_FEMALES THEN {Warning("females", female_count, {})} ELSE {})
        \cup (IF duplicates # {} THEN {Warning("duplicates", 0, duplicates)} ELSE {})
        \cup (IF unused # {} THEN {Warning("unused", 0, unused)} ELSE {})

NoWarnings == [i \in Innings |-> {}]

\* the grid and its warnings are only computed "if available_players:" (line 830)
GridShown(d, g) == InRows(d.game_player_status, g) # {}

InningWarnings(d, g) ==
    IF GridShown(d, g) THEN [i \in Innings |-> WarningsOf(d, g, i)] ELSE NoWarnings

-----------------------------------------------------------------------------
(* Game Lineup tab: the handlers of the lineup grid *)

\* display_options: the abbreviations of POSITIONS, then the blank
DisplayOptions == {POSITION_ABBREVIATIONS[POSITIONS[k]] : k \in 1..Len(POSITIONS)} \cup {""}

\* abbrev_to_full.get(selected_abbrev, selected_abbrev) if selected_abbrev else ""
AbbrevToFull(selected_abbrev) ==
    IF selected_abbrev = "" THEN ""
    ELSE IF \E p \in DOMAIN POSITION_ABBREVIATIONS : POSITION_ABBREVIATIONS[p] = selected_abbrev
         THEN CHOOSE p \in DOMAIN POSITION_ABBREVIATIONS :
                  POSITION_ABBREVIATIONS[p] = selected_abbrev
         ELSE selected_abbrev

\* the values c.fetchone() can give for the player's position in the inning
\* (lines 1064-1068): the position of one of the player's rows, "" when there is none
CurrentPositions(lp, g, inning, player) ==
    IF PlayerRows(lp, g, inning, player) = {} THEN {""}
    ELSE {r.position : r \in PlayerRows(lp, g, inning, player)}

\* SetCellHandler without the DELETE of the player's old position
SetCellKeepsOld(d, g, inning, player, current_position, selected_position) ==
    [d EXCEPT !.lineup_positions =
        IF selected_position # ""
           /\ LineupRow(g, inning, selected_position, player) \notin DOMAIN @
        THEN InsertLineup(@, LineupRow(g, inning, selected_position, player))
        ELSE @]

\* SetCellHandler under the dropped UNIQUE(game_id, inning, position): the new position
\* is taken away from whoever held it
SetCellEvicts(d, g, inning, player, current_position, selected_position) ==
    LET lp == d.lineup_positions
        removed == DeleteLineup(lp, PlayerRows(lp, g, inning, player)
                                    \cup {r \in InningRows(lp, g, inning) :
                                             r.position = selected_position})
    IN  [d EXCEPT !.lineup_positions =
            IF selected_position # ""
            THEN InsertLineup(removed, LineupRow(g, inning, selected_position, player))
            ELSE removed]

\* "Update database if changed" (lines 1108-1137)
SetCellHandler(d, g, inning, player, current_position, selected_position) ==
    LET lp == d.lineup_positions
        removed == IF current_position # ""
                   THEN DeleteLineup(lp, {LineupRow(g, inning, current_position, player)})
                   ELSE lp
        exists == LineupRow(g, inning, selected_position, player) \in DOMAIN removed
    IN  [d EXCEPT !.lineup_positions =
            IF selected_position # "" /\ ~exists
            THEN InsertLineup(removed, LineupRow(g, inning, selected_position, player))
            ELSE removed]

\* CopyIntoInning without the DELETE that clears the inning first
CopyIntoInningNoClear(lp, first_inning, g, inning_num) ==
    LET copied == {r \in DOMAIN first_inning : r.position # ""}
        target(r) == LineupRow(g, inning_num, r.position, r.player_name)
    IN  [x \in DOMAIN lp \cup {target(r) : r \in copied} |->
            (IF x \in DOMAIN lp THEN lp[x] ELSE 0)
            + SumCounts(first_inning, {r \in copied : target(r) = x})]

\* one pass of "for inning_num in range(2, 8)": clear the inning, copy the positions
CopyIntoInning(lp, first_inning, g, inning_num) ==
    LET cleared == DeleteLineup(lp, InningRows(lp, g, inning_num))
        copied == {r \in DOMAIN first_inning : r.position # ""}
        target(r) == LineupRow(g, inning_num, r.position, r.player_name)
    IN  [x \in DOMAIN cleared \cup {target(r) : r \in copied} |->
            (IF x \in DOMAIN cleared THEN cleared[x] ELSE 0)
            + SumCounts(first_inning, {r \in copied : target(r) = x})]

RECURSIVE CopyFromInning(_, _, _, _)
CopyFromInning(lp, first_inning, g, inning_num) ==
    IF inning_num > NUM_INNINGS THEN lp
    ELSE CopyFromInning(CopyIntoInning(lp, first_inning, g, inning_num),
                        first_inning, g, inning_num + 1)

\* "Copy Inning 1 to All" (lines 937-957)
CopyInningHandler(d, g) ==
    LET lp == d.lineup_positions
        first_inning == [r \in InningRows(lp, g, 1) |-> lp[r]]
    IN  [d EXCEPT !.lineup_positions = CopyFromInning(lp, first_inning, g, 2)]

\* ResetLineupHandler with "AND inning = 1" added to the DELETE
ResetFirstInningOnly(d, g) ==
    [d EXCEPT !.lineup_positions = DeleteLineup(@, InningRows(@, g, 1))]

\* "Reset Lineup" (lines 960-965)
ResetLineupHandler(d, g) ==
    [d EXCEPT !.lineup_positions = DeleteLineup(@, {r \in DOMAIN @ : r.game_id = g})]

\* the two UPDATEs of a move button (lines 1020-1033, 1044-1057)
SwapOrders(d, g, player, other) ==
    LET gps == d.game_player_status
        current_order == (CHOOSE r \in StatusRowsOf(gps, g, player) : TRUE).kicking_order
        other_order == (CHOOSE r \in StatusRowsOf(gps, g, other) : TRUE).kicking_order
        first == {IF r.game_id = g /\ r.player_name = player
                  THEN [r EXCEPT !.kicking_order = other_order] ELSE r : r \in gps}
    IN  [d EXCEPT !.game_player_status =
            {IF r.game_id = g /\ r.player_name = other
             THEN [r EXCEPT !.kicking_order = current_order] ELSE r : r \in first}]

\* the sit-out query counting every assignment of the player, whatever its position
SitOutCountsAnyPosition(d, g) ==
    LET lp == d.lineup_positions
        rows == {r \in DOMAIN lp : r.game_id = g}
    IN  [player \in {r.player_name : r \in rows} |->
            SumCounts(lp, {r \in rows : r.player_name = player})]

\* sit_out_counts (lines 994-999): COUNT(*) ... WHERE position = 'Out' GROUP BY player_name
sit_out_counts(d, g) ==
    LET lp == d.lineup_positions
        rows == {r \in DOMAIN lp : r.game_id = g /\ r.position = "Out"}
    IN  [player \in {r.player_name : r \in rows} |->
            SumCounts(lp, {r \in rows : r.player_name = player})]

\* sit_out_counts.get(player, 0) of the sit-out column (lines 1139-1146)
SitCount(d, g, player) ==
    IF player \in DOMAIN sit_out_counts(d, g) THEN sit_out_counts(d, g)[player] ELSE 0

\* player_idx of a player in available_players_sorted, from 1
PlayerIdx(gps, g, player) ==
    CHOOSE k \in 1..Cardinality(InRows(gps, g)) : AvailablePlayers(gps, g)[k] = player

\* MoveUpHandler that swaps with the first player of the order
MoveUpToTop(d, g, player) ==
    SwapOrders(d, g, player, AvailablePlayers(d.game_player_status, g)[1])

MoveUpHandler(d, g, player) ==
    LET gps == d.game_player_status
    IN  SwapOrders(d, g, player, AvailablePlayers(gps, g)[PlayerIdx(gps, g, player) - 1])

\* MoveDownHandler that swaps with the last player of the order
MoveDownToBottom(d, g, player) ==
    LET gps == d.game_player_status
    IN  SwapOrders(d, g, player, AvailablePlayers(gps, g)[Cardinality(InRows(gps, g))])

MoveDownHandler(d, g, player) ==
    LET gps == d.game_player_status
    IN  SwapOrders(d, g, player, AvailablePlayers(gps, g)[PlayerIdx(gps, g, player) + 1])

-----------------------------------------------------------------------------
(* Roster tab (lines 1166-1257): player_name TEXT UNIQUE NOT NULL *)

RosterRow(name, is_female) == [player_name |-> name, is_female |-> is_female]

\* player_name without its UNIQUE constraint: the INSERT never fails
NoIntegrityError(pool, name) == FALSE

\* the INSERT raises sqlite3.IntegrityError when the name is in the pool
IntegrityError(pool, name) == \E x \in pool : x.player_name = name

InsertPlayer(pool, name, is_female) == pool \cup {RosterRow(name, is_female)}

\* UPDATE ... SET is_female = new_gender WHERE player_name = name
ToggleGenderRow(pool, name) ==
    {IF x.player_name = name THEN [x EXCEPT !.is_female = ~@] ELSE x : x \in pool}

\* DELETE FROM ... WHERE player_name = name
DeletePlayerRow(pool, name) == {x \in pool : x.player_name # name}

-----------------------------------------------------------------------------
(* Sidebar (lines 364-412, 463-494) *)

hash_password(password) == <<"sha256", password>>

verify_password(password, password_hash) == hash_password(password) = password_hash

LoginOk(us, username, password) ==
    \E u \in us : u.username = username /\ verify_password(password, u.password_hash)

\* create_user: only while the table is empty
CreateUserRows(us, username, password) ==
    IF us # {} THEN us
    ELSE {[username |-> username, password_hash |-> hash_password(password)]}

-----------------------------------------------------------------------------
(* View Lineup tab (lines 1264-1343): read by every session, from the live tables *)

\* the positions in the order of "ORDER BY inning, position" (text order)
POSITIONS_BY_NAME == <<"Catcher", "Center Field", "First Base", "Left Center", "Left Field",
                       "Out", "Pitcher", "Right Center", "Right Field", "Second Base",
                       "Short Stop", "Third Base">>

PositionRank(position) ==
    IF position = "" THEN 0
    ELSE CHOOSE k \in 1..Len(POSITIONS_BY_NAME) : POSITIONS_BY_NAME[k] = position

\* player_positions_by_inning[inning][player] = position: a later row of the same
\* player replaces an earlier one; a blank position shows as "-"
ViewedPosition(lp, g, inning, player) ==
    LET ps == {r.position : r \in PlayerRows(lp, g, inning, player)}
        position == IF ps = {} THEN ""
                    ELSE CHOOSE q \in ps : \A o \in ps : PositionRank(o) <= PositionRank(q)
    IN  IF position = "" THEN "-" ELSE POSITION_ABBREVIATIONS[position]

\* the dataframe of the tab: the kicking order and each player's position per inning
ViewLineup(d, selected_game_id) ==
    LET available_players == AvailablePlayers(d.game_player_status, selected_game_id)
    IN  [kicking_order |-> available_players,
         positions |-> [k \in DOMAIN available_players |->
                          [inning \in Innings |->
                              ViewedPosition(d.lineup_positions, selected_game_id, inning,
                                             available_players[k])]]]

-----------------------------------------------------------------------------
(* The inputs the interactions are tried with *)

Usernames == {"coach"}
Passwords == {"secret", "guess"}
Coach == [username |-> "coach", password_hash |-> hash_password("secret")]

\* what is typed into the add forms
NameInputs == {<<>>, <<SPACE>>, Alice, Bob, <<1, SPACE>>, <<SPACE, 2>>}

\* the players whose buttons and cells are used
Cast == {Alice, Bob, Carol, Erin, Fay}

\* the options picked in a cell of the grid, and the innings whose cells are edited
AbbrevChoices == {"P", "C", "Out", ""}
InningChoices == {1, 2, NUM_INNINGS}

\* what is typed into the add-substitute form where the substitutes are followed
SubInputs == {Carol, Erin, <<SPACE, 5, SPACE>>}

TeamInputs == {DEFAULT_TEAM, "Kickers"}
OpponentInputs == {"", "Rivals"}
DateInputs(t) == {get_next_thursday(t) + 7 * k : k \in 0..MaxWeeksAhead}

-----------------------------------------------------------------------------
(* The interactions *)

Sessions == {1, 2}

\* "before" is the handler of the interaction before this one; "prior" is, for a move
\* button, the game_player_status table the interaction started from
Op(op, s, g, player, inning, current_position, selected_position) ==
    [op |-> op, session |-> s, game_id |-> g, player |-> player, inning |-> inning,
     current_position |-> current_position, selected_position |-> selected_position,
     before |-> "", prior |-> {}]

\* the exploration of a behaviour stops when its interactions are used up
Budget == left > 0

\* no script run is in progress
NoRun == [pc |-> "idle", op |-> "", game_id |-> NULL, player |-> <<>>, inning |-> 0,
          current_status |-> "", max_order |-> 0, current_position |-> "",
          selected_position |-> ""]

\* an interaction taken as one step: no other run is in progress meanwhile
Step(op) ==
    /\ left' = left - 1
    /\ last' = [op EXCEPT !.before = last.op]
    /\ today' = today
    /\ run' = run

Commit(d) ==
    /\ main_roster' = d.main_roster
    /\ substitutes' = d.substitutes
    /\ games' = d.games
    /\ game_player_status' = d.game_player_status
    /\ lineup_positions' = d.lineup_positions

\* the end of a Game Lineup run for game g: what the session now shows
Shown(s, d, g) ==
    /\ Commit(d)
    /\ current_game_id' = [current_game_id EXCEPT ![s] = g]
    /\ lineup_grid' = GridShown(d, g)
    /\ inning_warnings' = InningWarnings(d, g)

\* st.rerun(): a whole new run of the Game Lineup tab
Rerun(s, d) ==
    LET r == RenderGameTab(d, today)
    IN  Shown(s, r, CurrentGameId(r, today))

\* the Game Lineup tab without its is_authenticated() guard
GameTabAlwaysOpen(s) == TRUE

\* is_authenticated() and len(tabs) > 0 (line 541), and the same for the Roster tab (line 1158)
GameTabOpen(s) == authenticated[s]
RosterTabOpen(s) == authenticated[s]

\* a run in which no handler fires: a page load, or the public View Lineup
RenderApp(s) ==
    /\ Budget
    /\ Step(Op("render", s, NULL, <<>>, 0, "", ""))
    /\ notice' = ""
    /\ UNCHANGED <<users, authenticated>>
    /\ IF GameTabOpen(s)
       THEN Rerun(s, DB)
       ELSE UNCHANGED <<tables, current_game_id, lineup_grid, inning_warnings>>

Login(s, username, password) ==
    /\ Budget
    /\ ~authenticated[s]
    /\ Step(Op("login", s, NULL, <<>>, 0, "", ""))
    /\ UNCHANGED users
    /\ IF LoginOk(users, username, password)
       THEN /\ authenticated' = [authenticated EXCEPT ![s] = TRUE]
            /\ notice' = ""
            /\ Rerun(s, DB)
       ELSE /\ notice' = "invalid_login"
            /\ UNCHANGED <<authenticated, tables, current_game_id, lineup_grid, inning_warnings>>

CreateUser(s, username, password) ==
    /\ Budget
    /\ ~authenticated[s]
    /\ Step(Op("create_user", s, NULL, <<>>, 0, "", ""))
    /\ users' = CreateUserRows(users, username, password)
    /\ notice' = IF users = {} THEN "user_created" ELSE "users_exist"
    /\ UNCHANGED <<authenticated, tables, current_game_id, lineup_grid, inning_warnings>>

Logout(s) ==
    /\ Budget
    /\ authenticated[s]
    /\ Step(Op("logout", s, NULL, <<>>, 0, "", ""))
    /\ authenticated' = [authenticated EXCEPT ![s] = FALSE]
    /\ notice' = ""
    /\ UNCHANGED <<users, tables, current_game_id, lineup_grid, inning_warnings>>

\* the date and text inputs of the game differ from the row: UPDATE, no rerun
UpdateGame(s, new_date, new_team_name, new_opponent) ==
    /\ Budget
    /\ GameTabOpen(s)
    /\ LET d0 == GetOrCreateCurrentGame(DB, today)
           game == FetchGame(d0.games, get_next_thursday(today))
           d1 == UpdateGameRow(d0, game.id, new_date, new_team_name, new_opponent)
       IN  /\ \/ new_date # game.game_date
              \/ new_team_name # game.team_name
              \/ new_opponent # game.opponent_name
           /\ Step(Op("update_game", s, game.id, <<>>, 0, "", ""))
           /\ Shown(s, RenderFrom(d1, game.id), game.id)
    /\ notice' = ""
    /\ UNCHANGED <<users, authenticated>>

\* a roster or substitute button sets toggle_player; the next run toggles and reruns
TogglePlayer(s, player) ==
    /\ Budget
    /\ GameTabOpen(s)
    /\ player \in PoolNames(main_roster) \cup PoolNames(substitutes)
    /\ LET d0 == GetOrCreateCurrentGame(DB, today)
           g == CurrentGameId(d0, today)
       IN  /\ Step(Op("toggle_player", s, g, player, 0, "", ""))
           /\ Rerun(s, TogglePlayerHandler(d0, g, player))
    /\ notice' = ""
    /\ UNCHANGED <<users, authenticated>>

MoveUp(s, player) ==
    /\ Budget
    /\ GameTabOpen(s)
    /\ LET d1 == RenderGameTab(DB, today)
           g == CurrentGameId(d1, today)
       IN  /\ player \in AvailableSet(d1.game_player_status, g)
           /\ PlayerIdx(d1.game_player_status, g, player) > 1
           /\ Step([Op("move_up", s, g, player, 0, "", "")
                       EXCEPT !.prior = game_player_status])
           /\ Rerun(s, MoveUpHandler(d1, g, player))
    /\ notice' = ""
    /\ UNCHANGED <<users, authenticated>>

MoveDown(s, player) ==
    /\ Budget
    /\ GameTabOpen(s)
    /\ LET d1 == RenderGameTab(DB, today)
           g == CurrentGameId(d1, today)
       IN  /\ player \in AvailableSet(d1.game_player_status, g)
           /\ PlayerIdx(d1.game_player_status, g, player)
                  < Cardinality(InRows(d1.game_player_status, g))
           /\ Step([Op("move_down", s, g, player, 0, "", "")
                       EXCEPT !.prior = game_player_status])
           /\ Rerun(s, MoveDownHandler(d1, g, player))
    /\ notice' = ""
    /\ UNCHANGED <<users, authenticated>>

\* a selectbox of the grid changes: selected_position != current_position.  The grid
\* has a row for every available player and a cell for every inning.
SetCell(s) ==
    /\ Budget
    /\ GameTabOpen(s)
    /\ LET d1 == RenderGameTab(DB, today)
           g == CurrentGameId(d1, today)
       IN  \E player \in AvailableSet(d1.game_player_status, g) \cap Cast :
           \E inning \in InningChoices, selected_abbrev \in AbbrevChoices :
           \E current_position \in CurrentPositions(d1.lineup_positions, g, inning, player) :
              LET selected_position == AbbrevToFull(selected_abbrev)
              IN  /\ selected_position # current_position
                  /\ Step(Op("set_cell", s, g, player, inning, current_position,
                             selected_position))
                  /\ Rerun(s, SetCellHandler(d1, g, inning, player, current_position,
                                             selected_position))
    /\ notice' = ""
    /\ UNCHANGED <<users, authenticated>>

CopyInningOneToAll(s) ==
    /\ Budget
    /\ GameTabOpen(s)
    /\ LET d1 == RenderGameTab(DB, today)
           g == CurrentGameId(d1, today)
       IN  /\ GridShown(d1, g)
           /\ Step(Op("copy_inning", s, g, <<>>, 0, "", ""))
           /\ Rerun(s, CopyInningHandler(d1, g))
    /\ notice' = ""
    /\ UNCHANGED <<users, authenticated>>

ResetLineup(s) ==
    /\ Budget
    /\ GameTabOpen(s)
    /\ LET d1 == RenderGameTab(DB, today)
           g == CurrentGameId(d1, today)
       IN  /\ GridShown(d1, g)
           /\ Step(Op("reset_lineup", s, g, <<>>, 0, "", ""))
           /\ Rerun(s, ResetLineupHandler(d1, g))
    /\ notice' = ""
    /\ UNCHANGED <<users, authenticated>>

-----------------------------------------------------------------------------
(* The Roster tab's interactions *)

\* add_player_form (lines 1166-1179): "if submit and new_player:"
AddPlayerHandler(d, new_player, is_female) ==
    IF new_player = <<>>
    THEN [db |-> d, notice |-> "", rerun |-> FALSE]
    ELSE IF IntegrityError(d.main_roster, new_player)
    THEN [db |-> d, notice |-> "duplicate_main", rerun |-> FALSE]
    ELSE [db |-> [d EXCEPT !.main_roster = InsertPlayer(@, new_player, is_female)],
          notice |-> "added_main", rerun |-> TRUE]

\* add_substitute_form (lines 1220-1234): "if new_sub_name.strip():", insert the stripped name
AddSubstituteHandler(d, new_sub_name, is_female_sub) ==
    IF new_sub_name = <<>> \/ strip(new_sub_name) = <<>>
    THEN [db |-> d, notice |-> "", rerun |-> FALSE]
    ELSE IF IntegrityError(d.substitutes, strip(new_sub_name))
    THEN [db |-> d, notice |-> "duplicate_sub", rerun |-> FALSE]
    ELSE [db |-> [d EXCEPT !.substitutes = InsertPlayer(@, strip(new_sub_name), is_female_sub)],
          notice |-> "added_sub", rerun |-> TRUE]

\* the end of a form submission: st.rerun() after an insert, the rest of the run otherwise
FormDone(s, d1, h) ==
    /\ notice' = h.notice
    /\ IF h.rerun THEN Rerun(s, h.db) ELSE Shown(s, h.db, CurrentGameId(d1, today))

AddPlayer(s, new_player, is_female) ==
    /\ Budget
    /\ RosterTabOpen(s)
    /\ Step(Op("add_player", s, NULL, new_player, 0, "", ""))
    /\ LET d1 == RenderGameTab(DB, today)
       IN  FormDone(s, d1, AddPlayerHandler(d1, new_player, is_female))
    /\ UNCHANGED <<users, authenticated>>

AddSubstitute(s, new_sub_name, is_female_sub) ==
    /\ Budget
    /\ RosterTabOpen(s)
    /\ Step(Op("add_substitute", s, NULL, new_sub_name, 0, "", ""))
    /\ LET d1 == RenderGameTab(DB, today)
       IN  FormDone(s, d1, AddSubstituteHandler(d1, new_sub_name, is_female_sub))
    /\ UNCHANGED <<users, authenticated>>

ToggleGenderMain(s, player_name) ==
    /\ Budget
    /\ RosterTabOpen(s)
    /\ player_name \in PoolNames(main_roster)
    /\ Step(Op("toggle_gender_main", s, NULL, player_name, 0, "", ""))
    /\ LET d1 == RenderGameTab(DB, today)
       IN  Rerun(s, [d1 EXCEPT !.main_roster = ToggleGenderRow(@, player_name)])
    /\ notice' = ""
    /\ UNCHANGED <<users, authenticated>>

\* the Delete button with a clean-up of the rows recorded under the name
DeleteMainCascades(d, player_name) ==
    [d EXCEPT !.main_roster = DeletePlayerRow(@, player_name),
              !.game_player_status = {r \in @ : r.player_name # player_name},
              !.lineup_positions =
                  DeleteLineup(@, {r \in DOMAIN @ : r.player_name = player_name})]

\* the Delete button of a main-roster player (lines 1202-1205)
DeleteMainHandler(d, player_name) ==
    [d EXCEPT !.main_roster = DeletePlayerRow(@, player_name)]

\* the Delete button of a substitute (lines 1254-1257)
DeleteSubHandler(d, sub_name) ==
    [d EXCEPT !.substitutes = DeletePlayerRow(@, sub_name)]

DeleteMain(s, player_name) ==
    /\ Budget
    /\ RosterTabOpen(s)
    /\ player_name \in PoolNames(main_roster)
    /\ Step(Op("delete_main", s, NULL, player_name, 0, "", ""))
    /\ LET d1 == RenderGameTab(DB, today)
       IN  Rerun(s, DeleteMainHandler(d1, player_name))
    /\ notice' = ""
    /\ UNCHANGED <<users, authenticated>>

ToggleGenderSub(s, sub_name) ==
    /\ Budget
    /\ RosterTabOpen(s)
    /\ sub_name \in PoolNames(substitutes)
    /\ Step(Op("toggle_gender_sub", s, NULL, sub_name, 0, "", ""))
    /\ LET d1 == RenderGameTab(DB, today)
       IN  Rerun(s, [d1 EXCEPT !.substitutes = ToggleGenderRow(@, sub_name)])
    /\ notice' = ""
    /\ UNCHANGED <<users, authenticated>>

DeleteSub(s, sub_name) ==
    /\ Budget
    /\ RosterTabOpen(s)
    /\ sub_name \in PoolNames(substitutes)
    /\ Step(Op("delete_sub", s, NULL, sub_name, 0, "", ""))
    /\ LET d1 == RenderGameTab(DB, today)
       IN  Rerun(s, DeleteSubHandler(d1, sub_name))
    /\ notice' = ""
    /\ UNCHANGED <<users, authenticated>>

-----------------------------------------------------------------------------
(* The runs of the Game Lineup tab, statement by statement.  Every run opens its    *)
(* own connection (line 545): the other runs see what it wrote from its             *)
(* conn.commit() on, and between two statements of a run another session's run can  *)
(* execute statements of its own.                                                   *)

\* c.fetchone() of the lookup by date (lines 552-554): the id, NULL when there is no game
LookupGame(gs, t) ==
    IF GamesOn(gs, get_next_thursday(t)) = {} THEN NULL
    ELSE FetchGame(gs, get_next_thursday(t)).id

\* "Create new game" (lines 559-563)
InsertGameRow(d, t) ==
    [d EXCEPT !.games = @ \cup {[id |-> NextGameId(@), game_date |-> get_next_thursday(t),
                                 team_name |-> DEFAULT_TEAM, opponent_name |-> ""]}]

\* current_status of the toggle handler (lines 611-616)
ToggleCurrentStatus(d, g, player_to_toggle) ==
    LET result == StatusRowsOf(d.game_player_status, g, player_to_toggle)
    IN  IF result # {} THEN (CHOOSE r \in result : TRUE).status
        ELSE IF player_to_toggle \in PoolNames(d.substitutes) THEN "OUT" ELSE "IN"

\* "If player doesn't exist in game_player_status yet, initialize them" (lines 618-624)
ToggleInsertDefault(d, g, player_to_toggle) ==
    [d EXCEPT !.game_player_status =
        InsertOrIgnoreStatus(@, StatusRow(g, player_to_toggle,
                                          ToggleCurrentStatus(d, g, player_to_toggle),
                                          player_to_toggle \in PoolNames(d.substitutes), NULL))]

\* INSERT OR REPLACE ... 'OUT', NULL (lines 626-630)
ToggleWriteOutRow(d, g, player_to_toggle) ==
    [d EXCEPT !.game_player_status =
        InsertOrReplaceStatus(@, StatusRow(g, player_to_toggle, "OUT",
                                           player_to_toggle \in PoolNames(d.substitutes), NULL))]

\* INSERT OR REPLACE ... 'IN', max_order + 1 (lines 636-639)
ToggleWriteInRow(d, g, player_to_toggle, max_order) ==
    [d EXCEPT !.game_player_status =
        InsertOrReplaceStatus(@, StatusRow(g, player_to_toggle, "IN",
                                           player_to_toggle \in PoolNames(d.substitutes),
                                           max_order + 1))]

Goto(s, r) == run' = [run EXCEPT ![s] = r]

\* a run starts with the widget that fired and looks the current game up (lines 548-557)
StartRun(s, op, player, inning, selected_position) ==
    /\ Budget
    /\ GameTabOpen(s)
    /\ run[s].pc = "idle"
    /\ left' = left - 1
    /\ LET game_id == LookupGame(games, today)
       IN  /\ last' = [Op(op, s, game_id, player, inning, "", selected_position)
                          EXCEPT !.before = last.op]
           /\ Goto(s, [NoRun EXCEPT !.pc = IF game_id = NULL THEN "insert_game" ELSE "handler",
                                    !.op = op, !.game_id = game_id, !.player = player,
                                    !.inning = inning,
                                    !.selected_position = selected_position])
           /\ current_game_id' = IF game_id = NULL THEN current_game_id
                                 ELSE [current_game_id EXCEPT ![s] = game_id]
    /\ UNCHANGED <<today, users, authenticated, tables, lineup_grid, inning_warnings, notice>>

\* the tab is opened or reloaded: no widget fires
OpenTab(s) ==
    /\ run[s].pc = "idle"
    /\ StartRun(s, "render", <<>>, 0, "")

\* a button of Player Status has set toggle_player
PressToggle(s, player) ==
    /\ player \in PoolNames(main_roster) \cup PoolNames(substitutes)
    /\ StartRun(s, "toggle_player", player, 0, "")

\* an option is picked in a cell of the grid the session shows
PickPosition(s, player, inning, selected_abbrev) ==
    /\ player \in AvailableSet(game_player_status, current_game_id[s])
    /\ StartRun(s, "set_cell", player, inning, AbbrevToFull(selected_abbrev))

\* there was no game for next Thursday: INSERT, commit, game_id = c.lastrowid
InsertGame(s) ==
    /\ run[s].pc \in {"insert_game", "rerun_insert"}
    /\ games' = InsertGameRow(DB, today).games
    /\ Goto(s, [run[s] EXCEPT !.pc = IF @ = "insert_game" THEN "handler" ELSE "rerun_render",
                              !.game_id = NextGameId(games)])
    /\ current_game_id' = [current_game_id EXCEPT ![s] = NextGameId(games)]
    /\ UNCHANGED <<today, users, authenticated, main_roster, substitutes, game_player_status,
                   lineup_positions, lineup_grid, inning_warnings, notice, last, left>>

\* the toggle handler reads the player's status and commits the row of a player without one
ToggleSelectStatus(s) ==
    /\ run[s].pc = "handler"
    /\ run[s].op = "toggle_player"
    /\ LET current_status == ToggleCurrentStatus(DB, run[s].game_id, run[s].player)
       IN  /\ Commit(ToggleInsertDefault(DB, run[s].game_id, run[s].player))
           /\ Goto(s, [run[s] EXCEPT !.current_status = current_status,
                                     !.pc = IF current_status = "IN" THEN "toggle_out"
                                            ELSE "toggle_max"])
    /\ UNCHANGED <<today, users, authenticated, current_game_id, lineup_grid, inning_warnings,
                   notice, last, left>>

\* the player was IN: the row is replaced by an OUT row, and st.rerun()
ToggleWriteOut(s) ==
    /\ run[s].pc = "toggle_out"
    /\ Commit(ToggleWriteOutRow(DB, run[s].game_id, run[s].player))
    /\ Goto(s, [run[s] EXCEPT !.pc = "rerun"])
    /\ UNCHANGED <<today, users, authenticated, current_game_id, lineup_grid, inning_warnings,
                   notice, last, left>>

\* the player was OUT: SELECT COALESCE(MAX(kicking_order), 0) (lines 632-635)
ToggleSelectMax(s) ==
    /\ run[s].pc = "toggle_max"
    /\ Goto(s, [run[s] EXCEPT !.max_order = MaxInOrder(game_player_status, run[s].game_id),
                              !.pc = "toggle_in"])
    /\ UNCHANGED <<today, users, authenticated, tables, current_game_id, lineup_grid,
                   inning_warnings, notice, last, left>>

\* the row is replaced by an IN row with max_order + 1, and st.rerun()
ToggleWriteIn(s) ==
    /\ run[s].pc = "toggle_in"
    /\ Commit(ToggleWriteInRow(DB, run[s].game_id, run[s].player, run[s].max_order))
    /\ Goto(s, [run[s] EXCEPT !.pc = "rerun"])
    /\ UNCHANGED <<today, users, authenticated, current_game_id, lineup_grid, inning_warnings,
                   notice, last, left>>

\* the run reaches the cell: the writes of the rendering before the grid, then the
\* SELECT of the player's position (lines 1063-1068).  Without a row for the player, or
\* with the picked option already stored, the run ends like a run without a widget.
CellSelectPosition(s) ==
    /\ run[s].pc = "handler"
    /\ run[s].op = "set_cell"
    /\ LET g == run[s].game_id
           d1 == RenderFrom(DB, g)
       IN  IF run[s].player \notin AvailableSet(d1.game_player_status, g)
           THEN Shown(s, d1, g) /\ Goto(s, [run[s] EXCEPT !.pc = "idle"])
           ELSE \E current_position \in
                     CurrentPositions(d1.lineup_positions, g, run[s].inning, run[s].player) :
                   IF current_position = run[s].selected_position
                   THEN Shown(s, d1, g) /\ Goto(s, [run[s] EXCEPT !.pc = "idle"])
                   ELSE /\ Commit(d1)
                        /\ Goto(s, [run[s] EXCEPT !.current_position = current_position,
                                                  !.pc = "cell_write"])
                        /\ UNCHANGED <<current_game_id, lineup_grid, inning_warnings>>
    /\ UNCHANGED <<today, users, authenticated, notice, last, left>>

\* "Update database if changed": the DELETE and the INSERT are one transaction, closed
\* by the conn.commit() of lines 1131-1133, and st.rerun()
CellWrite(s) ==
    /\ run[s].pc = "cell_write"
    /\ Commit(SetCellHandler(DB, run[s].game_id, run[s].inning, run[s].player,
                             run[s].current_position, run[s].selected_position))
    /\ Goto(s, [run[s] EXCEPT !.pc = "rerun"])
    /\ UNCHANGED <<today, users, authenticated, current_game_id, lineup_grid, inning_warnings,
                   notice, last, left>>

\* st.rerun(): the new run looks the current game up
RerunLookup(s) ==
    /\ run[s].pc = "rerun"
    /\ LET game_id == LookupGame(games, today)
       IN  /\ Goto(s, [run[s] EXCEPT !.pc = IF game_id = NULL THEN "rerun_insert"
                                               ELSE "rerun_render",
                                     !.game_id = game_id])
           /\ current_game_id' = IF game_id = NULL THEN current_game_id
                                 ELSE [current_game_id EXCEPT ![s] = game_id]
    /\ UNCHANGED <<today, users, authenticated, tables, lineup_grid, inning_warnings, notice,
                   last, left>>

\* the rest of a run in which no widget fires: the writes of the rendering
RenderRest(s) ==
    /\ \/ run[s].pc = "handler" /\ run[s].op = "render"
       \/ run[s].pc = "rerun_render"
    /\ Shown(s, RenderFrom(DB, run[s].game_id), run[s].game_id)
    /\ Goto(s, [run[s] EXCEPT !.pc = "idle"])
    /\ UNCHANGED <<today, users, authenticated, notice, last, left>>

-----------------------------------------------------------------------------
(* Initial states *)

NoOp == Op("start", 1, NULL, <<>>, 0, "", "")

\* the state once the script has run for the first time: every table empty (init_db),
\* no session authenticated (lines 429-435)
Init ==
    /\ today \in 0..6
    /\ users = {}
    /\ authenticated = [s \in Sessions |-> FALSE]
    /\ current_game_id = [s \in Sessions |-> NULL]
    /\ main_roster = {}
    /\ substitutes = {}
    /\ games = {}
    /\ game_player_status = {}
    /\ lineup_positions = EmptyLineup
    /\ lineup_grid = FALSE
    /\ inning_warnings = NoWarnings
    /\ notice = ""
    /\ last = NoOp
    /\ left = MaxOps
    /\ run = [s \in Sessions |-> NoRun]

\* a database in use: the coach (session 1) is logged in and has rendered the Game
\* Lineup tab of game 1 on day t; session 2 is a visitor
InUse(n, t, mr, subs, gps, lp) ==
    LET d == [main_roster |-> mr, substitutes |-> subs,
              games |-> {[id |-> 1, game_date |-> get_next_thursday(t),
                          team_name |-> DEFAULT_TEAM, opponent_name |-> ""]},
              game_player_status |-> gps, lineup_positions |-> lp]
    IN  /\ today = t
        /\ users = {Coach}
        /\ authenticated = [s \in Sessions |-> s = 1]
        /\ current_game_id = [s \in Sessions |-> IF s = 1 THEN 1 ELSE NULL]
        /\ main_roster = mr
        /\ substitutes = subs
        /\ games = d.games
        /\ game_player_status = gps
        /\ lineup_positions = lp
        /\ lineup_grid = GridShown(d, 1)
        /\ inning_warnings = InningWarnings(d, 1)
        /\ notice = ""
        /\ last = NoOp
        /\ left = n
        /\ run = [s \in Sessions |-> NoRun]

\* Alice and Bob of the main roster are IN (each was toggled OUT and back IN, Alice
\* first), the substitute Carol is OUT, and no position is assigned yet
StartLineup(n) ==
    InUse(n, 0, {RosterRow(Alice, TRUE), RosterRow(Bob, FALSE)}, {RosterRow(Carol, TRUE)},
          {StatusRow(1, Alice, "IN", FALSE, 1), StatusRow(1, Bob, "IN", FALSE, 2),
           StatusRow(1, Carol, "OUT", TRUE, NULL)},
          EmptyLineup)

InitLineup == StartLineup(MaxOps)

InitInUse == StartLineup(MaxWideOps)

\* as InitLineup, also after Alice and Bob have been toggled OUT and IN in turn until
\* their kicking orders are the two numbers below the placeholder of a missing order;
\* Erin has been added to the main roster and her button has not been used yet
InitStatus ==
    \E first \in {1, ORDER_PLACEHOLDER - 2} :
        InUse(MaxOps, 0,
              {RosterRow(Alice, TRUE), RosterRow(Bob, FALSE), RosterRow(Erin, TRUE)},
              {RosterRow(Carol, TRUE)},
              {StatusRow(1, Alice, "IN", FALSE, first),
               StatusRow(1, Bob, "IN", FALSE, first + 1),
               StatusRow(1, Carol, "OUT", TRUE, NULL)},
              EmptyLineup)

\* the days on which the application is used: every weekday of the weeks whose
\* Thursdays the date input offers
Days == 0..(7 * (MaxWeeksAhead + 1) - 1)

\* as InitLineup, on any day
InitGames ==
    \E t \in Days :
        InUse(MaxOps, t, {RosterRow(Alice, TRUE), RosterRow(Bob, FALSE)},
              {RosterRow(Carol, TRUE)},
              {StatusRow(1, Alice, "IN", FALSE, 1), StatusRow(1, Bob, "IN", FALSE, 2),
               StatusRow(1, Carol, "OUT", TRUE, NULL)},
              EmptyLineup)

\* a roster with four women: either all five players are IN (toggled in the order of
\* their names) and inning 1 has three women and a man on the field, or only Alice
\* is IN and no position is assigned
ChecksRoster == {RosterRow(Alice, TRUE), RosterRow(Bob, FALSE), RosterRow(Erin, TRUE),
                 RosterRow(Fay, TRUE)}

InitChecks ==
    \/ InUse(MaxWideOps, 0, ChecksRoster, {RosterRow(Carol, TRUE)},
             {StatusRow(1, Alice, "IN", FALSE, 1), StatusRow(1, Bob, "IN", FALSE, 2),
              StatusRow(1, Carol, "IN", TRUE, 3), StatusRow(1, Erin, "IN", FALSE, 4),
              StatusRow(1, Fay, "IN", FALSE, 5)},
             InsertLineup(InsertLineup(InsertLineup(InsertLineup(EmptyLineup,
                 LineupRow(1, 1, "Pitcher", Alice)),
                 LineupRow(1, 1, "Catcher", Carol)),
                 LineupRow(1, 1, "First Base", Erin)),
                 LineupRow(1, 1, "Second Base", Bob)))
    \/ InUse(MaxWideOps, 0, ChecksRoster, {RosterRow(Carol, TRUE)},
             {StatusRow(1, Alice, "IN", FALSE, 1), StatusRow(1, Bob, "OUT", FALSE, NULL),
              StatusRow(1, Carol, "OUT", TRUE, NULL), StatusRow(1, Erin, "OUT", FALSE, NULL),
              StatusRow(1, Fay, "OUT", FALSE, NULL)},
             EmptyLineup)

\* two coaches are logged in and have rendered game 1, in which Alice and Bob are IN,
\* the substitutes Carol and Fay are OUT and Erin's button has not been used
RunsStart(t, game_date, first) ==
    LET d == [main_roster |-> {RosterRow(Alice, TRUE), RosterRow(Bob, FALSE),
                               RosterRow(Erin, TRUE)},
              substitutes |-> {RosterRow(Carol, TRUE), RosterRow(Fay, FALSE)},
              games |-> {[id |-> 1, game_date |-> game_date, team_name |-> DEFAULT_TEAM,
                          opponent_name |-> ""]},
              game_player_status |-> {StatusRow(1, Alice, "IN", FALSE, first),
                                      StatusRow(1, Bob, "IN", FALSE, first + 1),
                                      StatusRow(1, Carol, "OUT", TRUE, NULL),
                                      StatusRow(1, Fay, "OUT", TRUE, NULL)},
              lineup_positions |-> EmptyLineup]
    IN  /\ today = t
        /\ users = {Coach}
        /\ authenticated = [s \in Sessions |-> TRUE]
        /\ current_game_id = [s \in Sessions |-> 1]
        /\ main_roster = d.main_roster
        /\ substitutes = d.substitutes
        /\ games = d.games
        /\ game_player_status = d.game_player_status
        /\ lineup_positions = d.lineup_positions
        /\ lineup_grid = GridShown(d, 1)
        /\ inning_warnings = InningWarnings(d, 1)
        /\ notice = ""
        /\ last = NoOp
        /\ left = MaxRunOps
        /\ run = [s \in Sessions |-> NoRun]

\* either game 1 is the game of next Thursday (the kicking orders as in InitStatus), or
\* it was last week's game and no game exists yet for next Thursday (on a Monday or a
\* Thursday)
InitRuns ==
    \/ \E first \in {1, ORDER_PLACEHOLDER - 2} : RunsStart(0, get_next_thursday(0), first)
    \/ \E t \in {0, THURSDAY} : RunsStart(t, get_next_thursday(t) - 7, 1)

-----------------------------------------------------------------------------
(* Specifications *)

Next ==
    \E s \in Sessions :
        \/ RenderApp(s)
        \/ \E u \in Usernames, pw \in Passwords : Login(s, u, pw)
        \/ \E u \in Usernames, pw \in Passwords : CreateUser(s, u, pw)
        \/ Logout(s)
        \/ \E nd \in DateInputs(today), nt \in TeamInputs, no \in OpponentInputs :
               UpdateGame(s, nd, nt, no)
        \/ \E p \in Cast : TogglePlayer(s, p)
        \/ \E p \in Cast : MoveUp(s, p)
        \/ \E p \in Cast : MoveDown(s, p)
        \/ SetCell(s)
        \/ CopyInningOneToAll(s)
        \/ ResetLineup(s)
        \/ \E n \in NameInputs, f \in BOOLEAN : AddPlayer(s, n, f)
        \/ \E n \in NameInputs, f \in BOOLEAN : AddSubstitute(s, n, f)
        \/ \E p \in Cast : ToggleGenderMain(s, p)
        \/ \E p \in Cast : DeleteMain(s, p)
        \/ \E p \in Cast : ToggleGenderSub(s, p)
        \/ \E p \in Cast : DeleteSub(s, p)

\* the whole application from its first run
Spec == Init /\ [][Next]_vars

\* the whole application on a database in use
SpecInUse == InitInUse /\ [][Next]_vars

NextLineup ==
    \E s \in Sessions :
        \/ SetCell(s)
        \/ CopyInningOneToAll(s)
        \/ ResetLineup(s)

\* the lineup grid, from an empty lineup
SpecLineup == InitLineup /\ [][NextLineup]_vars

NextStatus ==
    \E s \in Sessions :
        \/ RenderApp(s)
        \/ \E p \in Cast : TogglePlayer(s, p)
        \/ \E p \in Cast : MoveUp(s, p)
        \/ \E p \in Cast : MoveDown(s, p)

\* availability and kicking order
SpecStatus == InitStatus /\ [][NextStatus]_vars

NextRoster ==
    \E s \in Sessions :
        \/ \E n \in NameInputs, f \in BOOLEAN : AddPlayer(s, n, f)
        \/ \E n \in NameInputs, f \in BOOLEAN : AddSubstitute(s, n, f)
        \/ \E p \in Cast : ToggleGenderMain(s, p)
        \/ \E p \in Cast : DeleteMain(s, p)
        \/ \E p \in Cast : ToggleGenderSub(s, p)
        \/ \E p \in Cast : DeleteSub(s, p)

\* the Roster tab
SpecRoster == InitLineup /\ [][NextRoster]_vars

NextGames ==
    \E s \in Sessions :
        \/ RenderApp(s)
        \/ \E nd \in DateInputs(today), nt \in TeamInputs, no \in OpponentInputs :
               UpdateGame(s, nd, nt, no)

\* the current game: get or create, and update
SpecGames == InitGames /\ [][NextGames]_vars

NextSubs ==
    \E s \in Sessions :
        \/ RenderApp(s)
        \/ \E n \in SubInputs, f \in BOOLEAN : AddSubstitute(s, n, f)
        \/ \E p \in Cast : TogglePlayer(s, p)
        \/ \E p \in Cast : DeleteSub(s, p)

\* the substitutes and their availability
SpecSubs == InitLineup /\ [][NextSubs]_vars

NextChecks ==
    \E s \in Sessions :
        \/ SetCell(s)
        \/ \E p \in Cast : TogglePlayer(s, p)
        \/ \E p \in Cast : ToggleGenderMain(s, p)
        \/ \E p \in Cast : ToggleGenderSub(s, p)
        \/ \E p \in Cast : DeleteMain(s, p)

\* the per-inning checks of the grid
SpecChecks == InitChecks /\ [][NextChecks]_vars

\* the players whose buttons and cells are used where runs are followed by statement
RunCast == {Alice, Carol, Erin, Fay}

NextRuns ==
    \E s \in Sessions :
        \/ OpenTab(s)
        \/ \E p \in RunCast : PressToggle(s, p)
        \/ \E p \in RunCast, a \in AbbrevChoices : PickPosition(s, p, 1, a)
        \/ InsertGame(s)
        \/ ToggleSelectStatus(s)
        \/ ToggleWriteOut(s)
        \/ ToggleSelectMax(s)
        \/ ToggleWriteIn(s)
        \/ CellSelectPosition(s)
        \/ CellWrite(s)
        \/ RerunLookup(s)
        \/ RenderRest(s)

\* the runs of two sessions, interleaved statement by statement
SpecRuns == InitRuns /\ [][NextRuns]_vars

-----------------------------------------------------------------------------
(* Claims about the lineup grid, checked under SpecLineup *)

GameIds(gs) == {x.id : x \in gs}

\* the number of rows a player has in one inning of one game
AssignmentCount(lp, g, inning, player) == SumCounts(lp, PlayerRows(lp, g, inning, player))

\* the (position, player) assignments of an inning
Assignments(lp, g, inning) ==
    {<<r.position, r.player_name>> : r \in InningRows(lp, g, inning)}

\* C1: after any sequence of setCell, copyInningOneToAll and resetLineup from an empty
\* lineup every (game, inning, player) has at most one assignment; a setCell to a
\* position leaves exactly one row for the player in the inning, with that position,
\* and a setCell to the blank leaves none.
C1_OneAssignmentPerInning ==
    [][ /\ \A r \in DOMAIN lineup_positions' :
              AssignmentCount(lineup_positions', r.game_id, r.inning, r.player_name) = 1
        /\ last'.op = "set_cell" =>
              LET mine == PlayerRows(lineup_positions', last'.game_id, last'.inning,
                                     last'.player)
              IN  IF last'.selected_position = ""
                  THEN mine = {}
                  ELSE mine = {LineupRow(last'.game_id, last'.inning,
                                         last'.selected_position, last'.player)}
      ]_vars

\* a player who held a position in the inning has just been set to a different one
C1_Witness ==
    /\ last.op = "set_cell"
    /\ last.current_position # ""
    /\ last.selected_position # ""
    /\ AssignmentCount(lineup_positions, last.game_id, last.inning, last.player) = 1

\* C2: setCell for player p in an inning changes only p's rows of that inning: every
\* row of another player, and every row of p in another inning, stays as it was (so a
\* player q who already holds the position p is set to keeps it).
C2_SetCellFrame ==
    [][ last'.op = "set_cell" =>
          \A r \in DOMAIN lineup_positions \cup DOMAIN lineup_positions' :
              (r.game_id # last'.game_id \/ r.inning # last'.inning
                                         \/ r.player_name # last'.player)
              => /\ r \in DOMAIN lineup_positions
                 /\ r \in DOMAIN lineup_positions'
                 /\ lineup_positions'[r] = lineup_positions[r]
      ]_vars

\* p has just been set to a playing position that another player holds in the inning
C2_Witness ==
    /\ last.op = "set_cell"
    /\ last.selected_position \in PlayingPositions
    /\ \E r \in InningRows(lineup_positions, last.game_id, last.inning) :
          /\ r.player_name # last.player
          /\ r.position = last.selected_position
    /\ PlayerRows(lineup_positions, last.game_id, last.inning, last.player) # {}

\* C3: after copyInningOneToAll the assignments of every inning 2..7 are the inning-1
\* assignments with a non-blank position, whatever the inning held before, and inning 1
\* is unchanged.
C3_CopyInningOne ==
    [][ last'.op = "copy_inning" =>
          /\ \A i \in 2..NUM_INNINGS :
                Assignments(lineup_positions', last'.game_id, i)
                  = {a \in Assignments(lineup_positions, last'.game_id, 1) : a[1] # ""}
          /\ \A r \in InningRows(lineup_positions, last'.game_id, 1)
                      \cup InningRows(lineup_positions', last'.game_id, 1) :
                /\ r \in DOMAIN lineup_positions
                /\ r \in DOMAIN lineup_positions'
                /\ lineup_positions'[r] = lineup_positions[r]
      ]_vars

\* a non-empty inning 1 has just been copied
C3_Witness ==
    /\ last.op = "copy_inning"
    /\ InningRows(lineup_positions, last.game_id, 1) # {}
    /\ \A i \in 2..NUM_INNINGS :
          Assignments(lineup_positions, last.game_id, i)
            = Assignments(lineup_positions, last.game_id, 1)

\* C4: resetLineup leaves the game without any lineup row, also right after
\* copyInningOneToAll, and changes no row of game_player_status.
C4_ResetLineup ==
    [][ last'.op = "reset_lineup" =>
          /\ \A r \in DOMAIN lineup_positions' : r.game_id # last'.game_id
          /\ game_player_status' = game_player_status
      ]_vars

\* the lineup has just been reset, right after a copy of inning 1
C4_Witness ==
    /\ last.op = "reset_lineup"
    /\ last.before = "copy_inning"
    /\ lineup_positions = EmptyLineup
    /\ game_player_status # {}

\* the number of "Out" assignments of a player in one inning, and in the innings 1..n
OutsIn(g, inning, player) ==
    SumCounts(lineup_positions,
              {r \in PlayerRows(lineup_positions, g, inning, player) : r.position = "Out"})

RECURSIVE OutsThrough(_, _, _)
OutsThrough(g, n, player) ==
    IF n = 0 THEN 0 ELSE OutsIn(g, n, player) + OutsThrough(g, n - 1, player)

\* the innings a player sits out
InningsOut(g, player) == {i \in Innings : OutsIn(g, i, player) > 0}

\* C22: the sit-out count of a player is the number of the player's "Out" assignments
\* over the 7 innings; with at most one assignment per inning it is the number of
\* innings the player sits out, and at most 7.
C22_SitOutCounts ==
    \A g \in GameIds(games), p \in Cast :
        /\ SitCount(DB, g, p) = OutsThrough(g, NUM_INNINGS, p)
        /\ (\A i \in Innings : AssignmentCount(lineup_positions, g, i, p) <= 1)
              => /\ SitCount(DB, g, p) = Cardinality(InningsOut(g, p))
                 /\ SitCount(DB, g, p) <= NUM_INNINGS

\* inning 1, in which one player sits out and another plays, has just been copied: the
\* one sits out all 7 innings and the other none
C22_Witness ==
    /\ last.op = "copy_inning"
    /\ \E p \in Cast, q \in Cast :
          /\ SitCount(DB, last.game_id, p) = NUM_INNINGS
          /\ SitCount(DB, last.game_id, q) = 0
          /\ PlayerRows(lineup_positions, last.game_id, 1, q) # {}

-----------------------------------------------------------------------------
(* Claims about availability and kicking order, checked under SpecStatus *)

\* C5: a player who was IN and is toggled twice in a row (IN -> OUT -> IN) is IN again,
\* with kicking order 1 + the greatest kicking order of the game's IN players at the
\* moment of the second toggle (1 if nobody is IN).
C5_ToggleRoundTrip ==
    [][ ( /\ last.op = "toggle_player"
          /\ last'.op = "toggle_player"
          /\ last'.player = last.player
          /\ last'.game_id = last.game_id
          /\ \E r \in StatusRowsOf(game_player_status, last.game_id, last.player) :
                r.status = "OUT" )
        => \E r \in StatusRowsOf(game_player_status', last'.game_id, last'.player) :
              /\ r.status = "IN"
              /\ r.kicking_order = 1 + MaxInOrder(game_player_status, last'.game_id)
      ]_vars

\* C12: when the Game Lineup tab is rendered and a main-roster player has no
\* availability row for the game, the run stores an IN row for the player with kicking
\* order 1 + the greatest kicking order of the game's IN players.
C12_RosterMaterialisedIn ==
    [][ (last'.op = "render" /\ authenticated[last'.session]) =>
          LET g == current_game_id'[last'.session]
          IN  \A p \in PoolNames(main_roster) :
                  StatusRowsOf(game_player_status, g, p) = {}
                  => \E r \in StatusRowsOf(game_player_status', g, p) :
                        /\ r.status = "IN"
                        /\ r.kicking_order = MaxInOrder(game_player_status, g) + 1
      ]_vars

\* C14: every OUT row has a null kicking order and every IN row, all of which are
\* listed as available, has a kicking order.
C14_OrderIffIn ==
    \A r \in game_player_status :
        /\ r.status = "OUT" => r.kicking_order = NULL
        /\ (r.status = "IN" /\ r.player_name \in AvailableSet(game_player_status, r.game_id))
              => r.kicking_order # NULL

\* a player who was IN has just been toggled OUT while another player is IN
C14_Witness ==
    /\ last.op = "toggle_player"
    /\ last.before = "toggle_player"
    /\ \E r \in StatusRowsOf(game_player_status, last.game_id, last.player) :
          r.status = "OUT" /\ r.kicking_order = NULL
    /\ Cardinality(InRows(game_player_status, last.game_id)) >= 2

\* C15: no two IN players of a game have the same kicking order.
C15_DistinctOrders ==
    \A r \in game_player_status, q \in game_player_status :
        (r.game_id = q.game_id /\ r.status = "IN" /\ q.status = "IN" /\ r # q)
        => r.kicking_order # q.kicking_order

\* a player has just come back IN behind two players whose orders were exchanged
C15_Witness ==
    /\ last.op = "toggle_player"
    /\ last.before \in {"move_up", "move_down"}
    /\ Cardinality(InRows(game_player_status, last.game_id)) = 3
    /\ \E r \in StatusRowsOf(game_player_status, last.game_id, last.player) :
          r.status = "IN"

\* the IN row of a player, and the game's IN rows before and after it in kicking order
InRowOf(gps, g, player) == CHOOSE r \in InRows(gps, g) : r.player_name = player

RowsAbove(gps, g, player) ==
    {r \in InRows(gps, g) : r.kicking_order < InRowOf(gps, g, player).kicking_order}

RowsBelow(gps, g, player) ==
    {r \in InRows(gps, g) : r.kicking_order > InRowOf(gps, g, player).kicking_order}

\* the table after the kicking orders of two of its rows are exchanged
Exchanged(gps, a, b) ==
    {IF r = a THEN [r EXCEPT !.kicking_order = b.kicking_order]
     ELSE IF r = b THEN [r EXCEPT !.kicking_order = a.kicking_order]
     ELSE r : r \in gps}

\* C16: a move up exchanges the kicking orders of the player and of the IN player with
\* the greatest order below the player's, a move down those of the player and of the
\* IN player with the least order above; every other order and every status stays,
\* and no move is made from the first place up or from the last place down.
C16_ReorderSwapsNeighbours ==
    [][ /\ last'.op = "move_up" =>
              LET gps == game_player_status
                  above == RowsAbove(gps, last'.game_id, last'.player)
              IN  /\ above # {}
                  /\ game_player_status' =
                        Exchanged(gps, InRowOf(gps, last'.game_id, last'.player),
                                  CHOOSE r \in above :
                                      \A o \in above : o.kicking_order <= r.kicking_order)
        /\ last'.op = "move_down" =>
              LET gps == game_player_status
                  below == RowsBelow(gps, last'.game_id, last'.player)
              IN  /\ below # {}
                  /\ game_player_status' =
                        Exchanged(gps, InRowOf(gps, last'.game_id, last'.player),
                                  CHOOSE r \in below :
                                      \A o \in below : o.kicking_order >= r.kicking_order)
      ]_vars

\* the third of three IN players has just moved up to the second place
C16_Witness ==
    /\ last.op = "move_up"
    /\ Cardinality(InRows(game_player_status, last.game_id)) = 3
    /\ Cardinality(RowsAbove(game_player_status, last.game_id, last.player)) = 1

\* C27: a move up of a player followed by a move down of the same player leaves every
\* kicking order (and every other field of game_player_status) as it was before the
\* two moves, and so does a move down followed by a move up.
C27_UpThenDownRestores ==
    [][ ( /\ last'.player = last.player
          /\ last'.game_id = last.game_id
          /\ \/ last.op = "move_up" /\ last'.op = "move_down"
             \/ last.op = "move_down" /\ last'.op = "move_up" )
        => game_player_status' = last.prior
      ]_vars

\* the second of three IN players has moved up and has just moved down again
C27_Witness ==
    /\ last.op = "move_down"
    /\ last.before = "move_up"
    /\ last.player = Bob
    /\ last.prior # game_player_status
    /\ Cardinality(InRows(game_player_status, last.game_id)) = 3
    /\ InRowOf(game_player_status, last.game_id, Alice).kicking_order = 1
    /\ InRowOf(game_player_status, last.game_id, Bob).kicking_order = 2

-----------------------------------------------------------------------------
(* Claims about the roster pools, checked under SpecRoster *)

NameCount(pool, name) == Cardinality({x \in pool : x.player_name = name})

\* C6: a name added to the main roster is listed there exactly once, no pool lists a
\* name twice, and adding a name that its pool already holds gives the duplicate-name
\* error and leaves the pool, the player's gender flag included, as it was.
C6_UniqueNames ==
    [][ /\ \A x \in main_roster' : NameCount(main_roster', x.player_name) = 1
        /\ \A x \in substitutes' : NameCount(substitutes', x.player_name) = 1
        /\ (last'.op = "add_player" /\ last'.player # <<>>)
              => NameCount(main_roster', last'.player) = 1
        /\ (last'.op = "add_player" /\ last'.player \in PoolNames(main_roster))
              => notice' = "duplicate_main" /\ main_roster' = main_roster
        /\ (last'.op = "add_substitute" /\ strip(last'.player) \in PoolNames(substitutes))
              => notice' = "duplicate_sub" /\ substitutes' = substitutes
      ]_vars

\* a name of the main roster has just been added again and was refused
C6_Witness ==
    /\ last.op = "add_player"
    /\ notice = "duplicate_main"
    /\ NameCount(main_roster, last.player) = 1

\* C17: adding a player to either pool with a name that is empty once its whitespace
\* is trimmed creates no player and leaves the pool unchanged.
C17_BlankNameRejected ==
    [][ (last'.op \in {"add_player", "add_substitute"} /\ strip(last'.player) = <<>>)
        => (main_roster' = main_roster /\ substitutes' = substitutes)
      ]_vars

\* C23: no name belongs to the main roster and to the substitutes at once.
C23_PoolsDisjoint == PoolNames(main_roster) \cap PoolNames(substitutes) = {}

-----------------------------------------------------------------------------
(* Claims about the whole application, checked under SpecInUse *)

\* the rows of a table recorded under a name
StatusRowsNamed(gps, name) == {r \in gps : r.player_name = name}

LineupRowsNamed(lp, name) == {r \in DOMAIN lp : r.player_name = name}

\* C18: deleting a player removes the rows of that name from the player's pool and
\* changes nothing else of either pool; every availability row and every lineup
\* assignment recorded under the name stays as it was, and so do all availability and
\* lineup rows when the run creates no game; deleting a name that a pool does not
\* hold leaves the pool as it is.
C18_DeleteOnlyThePool ==
    [][ /\ last'.op = "delete_main" =>
              /\ main_roster' = {x \in main_roster : x.player_name # last'.player}
              /\ substitutes' = substitutes
        /\ last'.op = "delete_sub" =>
              /\ substitutes' = {x \in substitutes : x.player_name # last'.player}
              /\ main_roster' = main_roster
        /\ last'.op \in {"delete_main", "delete_sub"} =>
              /\ StatusRowsNamed(game_player_status, last'.player) \subseteq game_player_status'
              /\ \A r \in LineupRowsNamed(lineup_positions, last'.player) :
                    /\ r \in DOMAIN lineup_positions'
                    /\ lineup_positions'[r] = lineup_positions[r]
              /\ games' = games =>
                    /\ game_player_status' = game_player_status
                    /\ lineup_positions' = lineup_positions
        /\ \A p \in Cast :
              /\ p \notin PoolNames(main_roster')
                    => DeletePlayerRow(main_roster', p) = main_roster'
              /\ p \notin PoolNames(substitutes')
                    => DeletePlayerRow(substitutes', p) = substitutes'
      ]_vars

\* a main-roster player with an availability row and a position has just been deleted
C18_Witness ==
    /\ last.op = "delete_main"
    /\ last.player \notin PoolNames(main_roster)
    /\ StatusRowsNamed(game_player_status, last.player) # {}
    /\ LineupRowsNamed(lineup_positions, last.player) # {}

\* C7: on one calendar day every run of the Game Lineup tab works on the same game id,
\* whatever was done between two runs, and a later run creates no new game.
C7_SameGameAllDay ==
    [][ /\ \A s \in Sessions, t \in Sessions :
              (current_game_id[s] # NULL /\ current_game_id'[t] # NULL)
              => current_game_id'[t] = current_game_id[s]
        /\ games # {} => GameIds(games') = GameIds(games)
      ]_vars

\* the handlers that edit the live lineup and kicking order
LiveEdits == {"set_cell", "copy_inning", "reset_lineup", "toggle_player", "move_up",
              "move_down"}

\* C8: what View Lineup shows of a game changes only when the game is published: an
\* edit of the live lineup, availability or kicking order leaves it as it was.
C8_ViewUnchangedByEdits ==
    [][ last'.op \in LiveEdits =>
          \A g \in GameIds(games) : ViewLineup(DB', g) = ViewLineup(DB, g)
      ]_vars

\* C13 and its amended form are checked under SpecSubs.
\* C13 as stated: rendering never stores an availability row for a substitute; a row
\* of a substitute appears only in the step that toggles that substitute.
C13_SubstitutesNeverPersisted ==
    [][ \A g \in GameIds(games'), sub \in PoolNames(substitutes') :
            (StatusRowsOf(game_player_status, g, sub) = {}
               /\ StatusRowsOf(game_player_status', g, sub) # {})
            => (last'.op = "toggle_player" /\ last'.player = sub)
      ]_vars

\* C13, amended: a run of the Game Lineup tab leaves every substitute with an
\* availability row for the game: a substitute without one gets an OUT row with a null
\* kicking order, unless the run toggles that substitute; a substitute is IN only from
\* the step that toggles that substitute.
C13_SubstitutesPersistedOut ==
    [][ authenticated'[last'.session] =>
          LET g == current_game_id'[last'.session]
          IN  \A sub \in PoolNames(substitutes') :
                  /\ StatusRowsOf(game_player_status', g, sub) # {}
                  /\ \A r \in StatusRowsOf(game_player_status', g, sub) :
                        /\ (StatusRowsOf(game_player_status, g, sub) = {}
                               /\ ~(last'.op = "toggle_player" /\ last'.player = sub))
                              => (r.status = "OUT" /\ r.kicking_order = NULL
                                                   /\ r.is_substitute)
                        /\ r.status = "IN"
                              => \/ \E q \in StatusRowsOf(game_player_status, g, sub) :
                                        q.status = "IN"
                                 \/ (last'.op = "toggle_player" /\ last'.player = sub)
      ]_vars

\* a substitute has just been added and the run that followed stored an OUT row
C13_Witness ==
    /\ last.op = "add_substitute"
    /\ notice = "added_sub"
    /\ \E r \in StatusRowsOf(game_player_status, current_game_id[last.session],
                              strip(last.player)) :
          r.status = "OUT" /\ r.kicking_order = NULL /\ r.is_substitute

\* C9: a step that changes a roster pool, the games, the availability statuses or the
\* lineup is taken by a session that is authenticated; a session that is not can only
\* render, log in or create the first user, and changes none of the tables.
C9_WritesAuthenticated ==
    [][ /\ tables' # tables => authenticated'[last'.session]
        /\ ~authenticated[last'.session]
              => last'.op \in {"render", "login", "create_user"}
      ]_vars

\* a visitor has rendered the application right after the coach edited the lineup
C9_Witness ==
    /\ last.op = "render"
    /\ ~authenticated[last.session]
    /\ last.before = "set_cell"
    /\ lineup_positions # EmptyLineup

-----------------------------------------------------------------------------
(* Claims about the per-inning checks, checked under SpecChecks *)

\* the players on the field in an inning whose gender flag is true in a pool
FemalesOnField(g, inning) ==
    {p \in PoolNames(main_roster \cup substitutes) :
        /\ \E r \in DOMAIN lineup_positions :
              /\ r.game_id = g /\ r.inning = inning /\ r.player_name = p
              /\ r.position \notin {"", "Out"}
        /\ \E x \in main_roster \cup substitutes : x.player_name = p /\ x.is_female}

FemaleWarning(inning) == \E w \in inning_warnings[inning] : w.kind = "females"

\* the game of the latest run of the Game Lineup tab
ShownGame == current_game_id[last.session]

\* C10 as stated: the female count of an inning is the number of distinct women on the
\* field, and the inning is warned exactly when the count is below 4.
C10_WarnedBelowFour ==
    authenticated[last.session] =>
        \A i \in Innings :
            /\ check_female_count(DB, ShownGame, i) = Cardinality(FemalesOnField(ShownGame, i))
            /\ FemaleWarning(i) <=> Cardinality(FemalesOnField(ShownGame, i)) < MIN_FEMALES

\* C10, amended: the same, the warning only where the grid is drawn, that is when the
\* game has a player who is IN.
C10_WarnedBelowFourInGrid ==
    authenticated[last.session] =>
        \A i \in Innings :
            /\ check_female_count(DB, ShownGame, i) = Cardinality(FemalesOnField(ShownGame, i))
            /\ lineup_grid =>
                  (FemaleWarning(i) <=> Cardinality(FemalesOnField(ShownGame, i)) < MIN_FEMALES)
            /\ ~lineup_grid => ~FemaleWarning(i)

\* a fourth woman has just taken the field in inning 1, which is no longer warned,
\* while inning 2 is
C10_Witness ==
    /\ last.op = "set_cell"
    /\ lineup_grid
    /\ Cardinality(FemalesOnField(ShownGame, 1)) = MIN_FEMALES
    /\ ~FemaleWarning(1)
    /\ FemaleWarning(2)

\* the eleven positions of the field
ElevenPositions == {"Pitcher", "Catcher", "First Base", "Second Base", "Third Base",
                    "Short Stop", "Left Field", "Left Center", "Center Field",
                    "Right Center", "Right Field"}

\* the positions with at least one assignment in an inning
AssignedPositions(g, inning) ==
    {r.position : r \in {x \in DOMAIN lineup_positions :
                            x.game_id = g /\ x.inning = inning}}

UnusedWarnings(inning) == {w \in inning_warnings[inning] : w.kind = "unused"}

\* C11: the unused positions of an inning are the eleven playing positions without
\* those that have an assignment in the inning; "Out" is never among them, an inning
\* without assignments has all eleven, and the grid warns of exactly these positions.
C11_UnusedPositions ==
    authenticated[last.session] =>
        \A i \in Innings :
            LET unused == get_unused_positions(DB, ShownGame, i)
            IN  /\ unused = ElevenPositions \ AssignedPositions(ShownGame, i)
                /\ "Out" \notin unused
                /\ AssignedPositions(ShownGame, i) = {} => Cardinality(unused) = 11
                /\ lineup_grid =>
                      UnusedWarnings(i) = IF unused = {} THEN {}
                                          ELSE {Warning("unused", 0, unused)}

\* inning 1 has players on the field and a player sitting out, inning 2 has nobody
C11_Witness ==
    /\ lineup_grid
    /\ "Out" \in AssignedPositions(ShownGame, 1)
    /\ Cardinality(get_unused_positions(DB, ShownGame, 1)) < 11
    /\ UnusedWarnings(2) = {Warning("unused", 0, ElevenPositions)}

-----------------------------------------------------------------------------
(* Claims about the current game, checked under SpecGames *)

\* C19: at most one game exists for any date.
C19_OneGamePerDate ==
    \A x \in games, y \in games : x.game_date = y.game_date => x.id = y.id

\* C20: on every weekday, get_next_thursday gives a Thursday 1 to 7 days after today,
\* never today, and 7 days after today when today is a Thursday; a run of the Game
\* Lineup tab works on a game of that date.
C20_NextThursday ==
    LET next_thursday == get_next_thursday(today)
    IN  /\ next_thursday % 7 = THURSDAY
        /\ next_thursday - today \in 1..7
        /\ today % 7 = THURSDAY => next_thursday = today + 7
        /\ (last.op = "render" /\ authenticated[last.session])
              => \E x \in games : /\ x.id = current_game_id[last.session]
                                  /\ x.game_date = next_thursday

\* on a Thursday the Game Lineup tab has been rendered for the game of the week after
C20_Witness ==
    /\ today % 7 = THURSDAY
    /\ last.op = "render"
    /\ authenticated[last.session]
    /\ \E x \in games : x.id = current_game_id[last.session] /\ x.game_date = today + 7

-----------------------------------------------------------------------------
(* Claims about duplicate positions and assigned players, checked under SpecChecks *)

\* the number of assignments of a position in an inning, and the players holding it
AssignmentsAt(g, inning, position) ==
    SumCounts(lineup_positions,
              {r \in DOMAIN lineup_positions :
                  r.game_id = g /\ r.inning = inning /\ r.position = position})

Holders(g, inning, position) ==
    {r.player_name : r \in {x \in DOMAIN lineup_positions :
                               x.game_id = g /\ x.inning = inning /\ x.position = position}}

\* the positions that two or more assignments of the inning have, blank and "Out" aside
HeldTwice(g, inning) ==
    {pos \in AssignedPositions(g, inning) \ {"", "Out"} : AssignmentsAt(g, inning, pos) >= 2}

DuplicateWarnings(inning) == {w \in inning_warnings[inning] : w.kind = "duplicates"}

\* C21: the duplicates of an inning are exactly the non-blank, non-"Out" positions that
\* two or more assignments of the inning have, each is reported with every player
\* holding it, "Out" is never among them, and the grid warns of exactly these positions.
C21_DuplicatePositions ==
    authenticated[last.session] =>
        \A i \in Innings :
            LET duplicates == get_duplicate_positions(DB, ShownGame, i)
                players == get_duplicate_players_by_position(DB, ShownGame, i)
            IN  /\ duplicates = HeldTwice(ShownGame, i)
                /\ "Out" \notin duplicates
                /\ DOMAIN players = HeldTwice(ShownGame, i)
                /\ \A pos \in DOMAIN players : players[pos] = Holders(ShownGame, i, pos)
                /\ lineup_grid =>
                      DuplicateWarnings(i) = IF HeldTwice(ShownGame, i) = {} THEN {}
                                             ELSE {Warning("duplicates", 0,
                                                           HeldTwice(ShownGame, i))}

\* a player has just been set to a position that another player holds in the inning,
\* and the inning is warned of that position with both players
C21_Witness ==
    /\ last.op = "set_cell"
    /\ lineup_grid
    /\ last.selected_position \in HeldTwice(ShownGame, last.inning)
    /\ Cardinality(Holders(ShownGame, last.inning, last.selected_position)) = 2
    /\ DuplicateWarnings(last.inning) # {}

\* C24: every player with a lineup assignment in a game is IN in that game, so every
\* position the checks of an inning count as filled is held by an available player.
C24_AssignedPlayersAreIn ==
    /\ \A r \in DOMAIN lineup_positions :
          r.player_name \in AvailableSet(game_player_status, r.game_id)
    /\ \A g \in GameIds(games), i \in Innings :
          \A pos \in PlayingPositions \ get_unused_positions(DB, g, i) :
              Holders(g, i, pos) \cap AvailableSet(game_player_status, g) # {}

-----------------------------------------------------------------------------
(* Claims about the runs of two sessions, checked under SpecRuns *)

\* the step is the part of a run of session s that renders the tab: the substitutes
\* expander and the kicking order initialisation
RenderStep(s) ==
    /\ run'[s].pc # run[s].pc
    /\ \/ run[s].pc = "handler" /\ run[s].op \in {"render", "set_cell"}
       \/ run[s].pc = "rerun_render"

\* q comes before r in the previous order: by kicking order, a player without one
\* after every player with one, ties by name
PreviousOrder(q, r) ==
    \/ q.kicking_order # NULL /\ r.kicking_order # NULL /\ q.kicking_order < r.kicking_order
    \/ q.kicking_order # NULL /\ r.kicking_order = NULL
    \/ q.kicking_order = r.kicking_order /\ NameLess(q.player_name, r.player_name)

\* C25: when the tab is rendered and an IN player of the game has a null kicking order,
\* the IN players get exactly the values 1..n, in their previous order, and every
\* status stays as it was.
C25_OrderInitialisation ==
    [][ \A s \in Sessions :
          LET g == run[s].game_id
              before == InRows(game_player_status, g)
              after == InRows(game_player_status', g)
          IN  (RenderStep(s) /\ \E r \in before : r.kicking_order = NULL)
              => /\ {r.kicking_order : r \in after} = 1..Cardinality(before)
                 /\ {r.player_name : r \in after} = {r.player_name : r \in before}
                 /\ \A q \in before, r \in before :
                       PreviousOrder(q, r)
                       => InRowOf(game_player_status', g, q.player_name).kicking_order
                            < InRowOf(game_player_status', g, r.player_name).kicking_order
                 /\ \A r \in game_player_status :
                       r.game_id = g
                       => \E q \in StatusRowsOf(game_player_status', g, r.player_name) :
                             q.status = r.status
      ]_vars

\* C26: rendering the tab leaves every kicking order of the game as it is when every
\* IN player has a kicking order, whatever the values.
C26_RenderKeepsOrders ==
    [][ \A s \in Sessions :
          LET g == run[s].game_id
          IN  (RenderStep(s) /\ \A r \in InRows(game_player_status, g) : r.kicking_order # NULL)
              => \A r \in game_player_status : r.game_id = g => r \in game_player_status'
      ]_vars

\* both sessions have finished the run of an interaction
BothDone(op) == \A s \in Sessions : run[s].pc = "idle" /\ run[s].op = op

\* C28: when two sessions have each toggled a different OUT player of the same game to
\* IN, however their statements interleaved, the two players have different kicking
\* orders.
C28_ConcurrentTogglesDistinct ==
    ( /\ BothDone("toggle_player")
      /\ \A s \in Sessions : run[s].current_status = "OUT"
      /\ run[1].player # run[2].player
      /\ run[1].game_id = run[2].game_id )
    => \A q \in StatusRowsOf(game_player_status, run[1].game_id, run[1].player),
          r \in StatusRowsOf(game_player_status, run[2].game_id, run[2].player) :
          (q.status = "IN" /\ r.status = "IN") => q.kicking_order # r.kicking_order

\* C29: when two sessions have each set the same player in the same inning of the same
\* game to different positions, however their statements interleaved, the player has at
\* most one assignment in the inning.
C29_ConcurrentSetCellOneRow ==
    ( /\ BothDone("set_cell")
      /\ run[1].player = run[2].player
      /\ run[1].inning = run[2].inning
      /\ run[1].game_id = run[2].game_id
      /\ run[1].selected_position # run[2].selected_position )
    => AssignmentCount(lineup_positions, run[1].game_id, run[1].inning, run[1].player) <= 1

\* C30: when two sessions have each opened the tab, however their statements
\* interleaved, exactly one game exists for next Thursday and both sessions use the
\* same game id.
C30_ConcurrentOpenOneGame ==
    BothDone("render")
    => /\ Cardinality(GamesOn(games, get_next_thursday(today))) = 1
       /\ run[1].game_id = run[2].game_id
       /\ current_game_id[1] = current_game_id[2]

====
